---- MODULE Spec2Model ----
(***************************************************************************)
(* Sender-side flow control of a data channel                              *)
(* (src/src/helpers/data_channel.ts).                                      *)
(*                                                                         *)
(* FlowControlledDataChannel: write() throws while paused, pauses once     *)
(* dc.bufferedAmount has reached the high water mark, and is resumed by    *)
(* the data channel's onbufferedamountlow event.                           *)
(* UnboundedFlowControlledDataChannel: write() chains every message onto   *)
(* one promise (this.queue); each link awaits this.ready and then calls    *)
(* the inherited write.                                                    *)
(*                                                                         *)
(* Spec          the FlowControlledDataChannel driven by a caller          *)
(* SpecUnbounded the UnboundedFlowControlledDataChannel                    *)
(* SpecCaller    the FlowControlledDataChannel driven by a caller that     *)
(*               awaits `ready` before every write                         *)
(* SpecBackpressure  as Spec, on a channel that fires bufferedamountlow     *)
(*               only at or below the threshold                            *)
(* SpecLive      the UnboundedFlowControlledDataChannel on a channel whose *)
(*               send never throws, with the event loop running every      *)
(*               continuation that is ready and a notification following   *)
(*               every pause                                               *)
(***************************************************************************)
EXTENDS Integers, Sequences, FiniteSets

\* Bounds of the model
MaxWrites == 4
MaxSize == 2
\* Constructor arguments lowWaterMark / highWaterMark (small stand-ins for
\* the defaults 262144 / 1048576)
lowWaterMark == 1
highWaterMark == 2

VARIABLES
    bufferedAmount,             \* dc.bufferedAmount
    bufferedAmountLowThreshold, \* dc.bufferedAmountLowThreshold
    caller,                     \* a user of the `ready` getter: pc and the future it got
    dcOpen,                     \* FALSE once dc.send throws (channel closed)
    ready,                      \* this._ready: the current Future instance
    done,                       \* the Future instances whose .done is true
    futures,                    \* number of Future instances created so far
    queue,                      \* this.queue: the links of the promise chain
    sendLog,                    \* history: every invocation of dc.send
    results,                    \* history: how every call of write() returned
    resumes                     \* history: number of times the handler resumed

vars == <<bufferedAmount, bufferedAmountLowThreshold, caller, dcOpen, ready, done,
          futures, queue, sendLog, results, resumes>>

NoFuture == 0 - 1

Sizes == {1, MaxSize}

\* The message of the n-th call of write: n tells the calls apart, size is
\* message.byteLength.
Message(n, s) == [id |-> n, size |-> s]

Outcomes == {"ok", "NotReady", "TransportError"}

\* The fields of the two classes and of the data channel they drive
TypeOK ==
    /\ bufferedAmount \in Nat
    /\ bufferedAmountLowThreshold \in Nat
    /\ caller.pc \in {"idle", "waiting"}
    /\ caller.fetched \in {NoFuture} \cup 0..(futures - 1)
    /\ dcOpen \in BOOLEAN
    /\ futures \in Nat
    /\ ready \in 0..(futures - 1)
    /\ done \subseteq 0..(futures - 1)
    /\ resumes \in Nat
    /\ \A n \in 1..Len(queue) :
          /\ queue[n].msg.id = n
          /\ queue[n].msg.size \in Sizes
          /\ queue[n].pc \in {"queued", "awaiting", "fulfilled", "rejected"}
          /\ queue[n].awaited \in {NoFuture} \cup 0..(futures - 1)
          /\ queue[n].error \in {"none"} \cup Outcomes
    /\ \A k \in 1..Len(sendLog) :
          /\ sendLog[k].ok \in BOOLEAN
          /\ sendLog[k].high \in BOOLEAN
          /\ sendLog[k].epoch \in 0..resumes
    /\ \A i \in 1..Len(results) : results[i].outcome \in Outcomes

----------------------------------------------------------------------------
\* Future (a Promise with a `done` flag and a public resolve())

\* future.done
FutureDone(f) == f \in done

\* future.resolve(): sets done; resolving a done future changes nothing
FutureResolve(f) == done' = done \cup {f}

\* new Future(): a fresh instance, not done
NewFuture == futures

----------------------------------------------------------------------------
\* FlowControlledDataChannel

\* Mutant: write without the paused check
PausedCheckMissing == FALSE

\* !this._ready.done
Paused == ~FutureDone(ready)

\* dc.send(message): throws when the channel cannot send, else the message
\* is added to the channel's buffer
SendOk == dcOpen

SendBuffered(m) == IF SendOk THEN bufferedAmount + m.size ELSE bufferedAmount

\* Mutant: `>` for `>=`
PauseAboveHighOnly(sendOk, buffered) == sendOk /\ buffered > highWaterMark

\* Mutant: compared with the low water mark
PauseAtLowWaterMark(sendOk, buffered) == sendOk /\ buffered >= lowWaterMark

\* Mutant: the check also runs when dc.send threw (as in a finally block)
PauseAlsoOnFailure(sendOk, buffered) == buffered >= highWaterMark

\* if (this.dc.bufferedAmount >= this.highWaterMark), reached only when
\* dc.send returned
PauseAfterSend(sendOk, buffered) == sendOk /\ buffered >= highWaterMark

\* How FlowControlledDataChannel.write returns
WriteOutcome ==
    IF Paused THEN "NotReady"
    ELSE IF ~SendOk THEN "TransportError"
    ELSE "ok"

\* FlowControlledDataChannel.write(message)
FlowControlledWrite(m) ==
    IF Paused
    THEN UNCHANGED <<bufferedAmount, ready, done, futures, sendLog>>
    ELSE /\ sendLog' = Append(sendLog, [msg |-> m, ok |-> SendOk,
                                        high |-> SendBuffered(m) >= highWaterMark,
                                        epoch |-> resumes])
         /\ bufferedAmount' = SendBuffered(m)
         /\ IF PauseAfterSend(SendOk, SendBuffered(m))
            THEN /\ ready' = NewFuture
                 /\ futures' = futures + 1
            ELSE UNCHANGED <<ready, futures>>
         /\ UNCHANGED done

\* Mutant: the handler without its `if (!this._ready.done)`
LowHandlerUnguarded ==
    /\ FutureResolve(ready)
    /\ resumes' = resumes + 1

\* Mutant: the handler logs but never resolves
LowHandlerNoResume == UNCHANGED <<done, resumes>>

\* The body of the dc.onbufferedamountlow handler
LowHandler ==
    IF ~FutureDone(ready)
    THEN /\ FutureResolve(ready)
         /\ resumes' = resumes + 1
    ELSE UNCHANGED <<done, resumes>>

\* The data channel fires bufferedamountlow (also spuriously or repeatedly)
OnBufferedAmountLow ==
    /\ LowHandler
    /\ UNCHANGED <<bufferedAmount, bufferedAmountLowThreshold, caller, dcOpen, ready,
                   futures, queue, sendLog, results>>

\* The data channel delivers buffered bytes to the network
TransportDrain ==
    /\ bufferedAmount > 0
    /\ \E b \in 0..(bufferedAmount - 1) : bufferedAmount' = b
    /\ UNCHANGED <<bufferedAmountLowThreshold, caller, dcOpen, ready, done, futures,
                   queue, sendLog, results, resumes>>

\* The data channel closes: dc.send throws from now on
TransportClose ==
    /\ dcOpen
    /\ dcOpen' = FALSE
    /\ UNCHANGED <<bufferedAmount, bufferedAmountLowThreshold, caller, ready, done,
                   futures, queue, sendLog, results, resumes>>

\* A caller calls FlowControlledDataChannel.write(message)
Write ==
    /\ Len(results) < MaxWrites
    /\ \E s \in Sizes :
        LET m == Message(Len(results) + 1, s) IN
        /\ results' = Append(results, [msg |-> m, outcome |-> WriteOutcome,
                                       epoch |-> resumes])
        /\ FlowControlledWrite(m)
    /\ UNCHANGED <<bufferedAmountLowThreshold, caller, dcOpen, queue, resumes>>

\* Mutant: the constructor without its this._ready.resolve()
InitNotResolved ==
    /\ bufferedAmount = 0
    /\ bufferedAmountLowThreshold = lowWaterMark
    /\ caller = [pc |-> "idle", fetched |-> NoFuture]
    /\ dcOpen = TRUE
    /\ ready = 0
    /\ done = {}
    /\ futures = 1
    /\ queue = <<>>
    /\ sendLog = <<>>
    /\ results = <<>>
    /\ resumes = 0

\* Mutant: the constructor sets the threshold to the high water mark
InitThresholdHigh ==
    /\ bufferedAmount = 0
    /\ bufferedAmountLowThreshold = highWaterMark
    /\ caller = [pc |-> "idle", fetched |-> NoFuture]
    /\ dcOpen = TRUE
    /\ ready = 0
    /\ done = {0}
    /\ futures = 1
    /\ queue = <<>>
    /\ sendLog = <<>>
    /\ results = <<>>
    /\ resumes = 0

\* State after the constructor
Init ==
    /\ bufferedAmount = 0
    /\ bufferedAmountLowThreshold = lowWaterMark
    /\ caller = [pc |-> "idle", fetched |-> NoFuture]
    /\ dcOpen = TRUE
    /\ ready = 0
    /\ done = {0}
    /\ futures = 1
    /\ queue = <<>>
    /\ sendLog = <<>>
    /\ results = <<>>
    /\ resumes = 0

Next ==
    \/ Write
    \/ OnBufferedAmountLow
    \/ TransportDrain
    \/ TransportClose

Spec == Init /\ [][Next]_vars

\* The data channel fires bufferedamountlow as specified: only with
\* bufferedAmount at or below bufferedAmountLowThreshold
GenuineBufferedAmountLow ==
    /\ bufferedAmount <= bufferedAmountLowThreshold
    /\ OnBufferedAmountLow

NextBackpressure ==
    \/ Write
    \/ GenuineBufferedAmountLow
    \/ TransportDrain
    \/ TransportClose

SpecBackpressure == Init /\ [][NextBackpressure]_vars

----------------------------------------------------------------------------
\* A caller that follows "Before calling this, the `ready` Promise must be
\* awaited": await dc.ready; dc.write(message); one call after the other

\* Mutant: the getter hands out the future that the current one replaced
ReadyGetterStale == IF ready > 0 THEN ready - 1 ELSE ready

\* get ready(): return this._ready
ReadyGetter == ready

\* The caller reads dc.ready and starts to await it
CallerFetch ==
    /\ caller.pc = "idle"
    /\ Len(results) < MaxWrites
    /\ caller' = [pc |-> "waiting", fetched |-> ReadyGetter]
    /\ UNCHANGED <<bufferedAmount, bufferedAmountLowThreshold, dcOpen, ready,
                   done, futures, queue, sendLog, results, resumes>>

\* The awaited future is done: the caller continues and calls write once
CallerWrite ==
    /\ caller.pc = "waiting"
    /\ FutureDone(caller.fetched)
    /\ \E s \in Sizes :
        LET m == Message(Len(results) + 1, s) IN
        /\ results' = Append(results, [msg |-> m, outcome |-> WriteOutcome,
                                       epoch |-> resumes])
        /\ FlowControlledWrite(m)
    /\ caller' = [pc |-> "idle", fetched |-> NoFuture]
    /\ UNCHANGED <<bufferedAmountLowThreshold, dcOpen, queue, resumes>>

NextCaller ==
    \/ CallerFetch
    \/ CallerWrite
    \/ OnBufferedAmountLow
    \/ TransportDrain
    \/ TransportClose

SpecCaller == Init /\ [][NextCaller]_vars

----------------------------------------------------------------------------
\* UnboundedFlowControlledDataChannel

\* Settled state of the promise the n-th link is chained onto: this.queue
\* as it was when write() was called the n-th time. The first link is
\* chained onto the initial ready future, resolved by the constructor.
PrevState(n) ==
    IF n = 1
    THEN (IF FutureDone(0) THEN "fulfilled" ELSE "queued")
    ELSE queue[n - 1].pc

\* State of this.queue, the tail of the chain
TailState == PrevState(Len(queue) + 1)

\* Mutant: the link is not chained onto this.queue, it starts at once
PrevNotAwaited(n) == TRUE

\* Mutant: the callback is also passed as onRejected, so it runs after a
\* rejected link as well
PrevSettled(n) == PrevState(n) \in {"fulfilled", "rejected"}

\* promise.then(onFulfilled): onFulfilled runs once the promise is fulfilled
PrevFulfilled(n) == PrevState(n) = "fulfilled"

\* promise.then(onFulfilled) without onRejected: a rejection passes through
PrevRejected(n) == PrevState(n) = "rejected"

\* Mutant: writeWhenReady without the await
AwaitMissing(f) == TRUE

\* await future: the async function continues once that instance is done
AwaitDone(f) == FutureDone(f)

\* Mutant: a fast path that calls the inherited write at once while the
\* chain is settled
UnboundedWriteFastPath ==
    /\ Len(queue) < MaxWrites
    /\ \E s \in Sizes :
        LET m == Message(Len(queue) + 1, s)
            fast == TailState = "fulfilled"
            out == IF fast THEN WriteOutcome ELSE "ok"
        IN
        /\ queue' = Append(queue, [msg |-> m,
                                   pc |-> IF ~fast THEN "queued"
                                          ELSE IF out = "ok" THEN "fulfilled"
                                          ELSE "rejected",
                                   awaited |-> NoFuture,
                                   error |-> IF out = "ok" THEN "none" ELSE out,
                                   pausedAtSubmit |-> ~FutureDone(ready),
                                   failedAtSubmit |-> TailState = "rejected",
                                   epoch |-> resumes])
        /\ results' = Append(results, [msg |-> m, outcome |-> out,
                                       epoch |-> resumes])
        /\ IF fast THEN FlowControlledWrite(m)
           ELSE UNCHANGED <<bufferedAmount, ready, done, futures, sendLog>>
    /\ UNCHANGED <<bufferedAmountLowThreshold, caller, dcOpen, resumes>>

\* UnboundedFlowControlledDataChannel.write(message)
UnboundedWrite ==
    /\ Len(queue) < MaxWrites
    /\ \E s \in Sizes :
        LET m == Message(Len(queue) + 1, s) IN
        /\ queue' = Append(queue, [msg |-> m, pc |-> "queued",
                                   awaited |-> NoFuture, error |-> "none",
                                   pausedAtSubmit |-> ~FutureDone(ready),
                                   failedAtSubmit |-> TailState = "rejected",
                                   epoch |-> resumes])
        /\ results' = Append(results, [msg |-> m, outcome |-> "ok",
                                       epoch |-> resumes])
    /\ UNCHANGED <<bufferedAmount, bufferedAmountLowThreshold, caller, dcOpen, ready,
                   done, futures, sendLog, resumes>>

\* The then-callback of link n runs: writeWhenReady(message) up to its
\* `await this.ready`
WriteWhenReadyStart(n) ==
    /\ queue[n].pc = "queued"
    /\ PrevFulfilled(n)
    /\ queue' = [queue EXCEPT ![n].pc = "awaiting", ![n].awaited = ready]
    /\ UNCHANGED <<bufferedAmount, bufferedAmountLowThreshold, caller, dcOpen, ready,
                   done, futures, sendLog, results, resumes>>

\* Mutant: the error of super.write is caught and dropped, the link is
\* fulfilled
WriteWhenReadyResumeSwallowed(n) ==
    /\ queue[n].pc = "awaiting"
    /\ AwaitDone(queue[n].awaited)
    /\ queue' = [queue EXCEPT ![n].pc = "fulfilled", ![n].error = "none"]
    /\ FlowControlledWrite(queue[n].msg)
    /\ UNCHANGED <<bufferedAmountLowThreshold, caller, dcOpen, results, resumes>>

\* writeWhenReady continues after the await: super.write(message); the
\* link settles with the outcome
WriteWhenReadyResume(n) ==
    /\ queue[n].pc = "awaiting"
    /\ AwaitDone(queue[n].awaited)
    /\ queue' = [queue EXCEPT
                    ![n].pc = IF WriteOutcome = "ok" THEN "fulfilled"
                              ELSE "rejected",
                    ![n].error = IF WriteOutcome = "ok" THEN "none"
                                 ELSE WriteOutcome]
    /\ FlowControlledWrite(queue[n].msg)
    /\ UNCHANGED <<bufferedAmountLowThreshold, caller, dcOpen, results, resumes>>

\* The link before n is rejected: the callback of link n never runs and
\* link n is rejected with the same error
RejectionPassed(n) ==
    /\ queue[n].pc = "queued"
    /\ PrevRejected(n)
    /\ queue' = [queue EXCEPT ![n].pc = "rejected",
                              ![n].error = queue[n - 1].error]
    /\ UNCHANGED <<bufferedAmount, bufferedAmountLowThreshold, caller, dcOpen, ready,
                   done, futures, sendLog, results, resumes>>

NextUnbounded ==
    \/ UnboundedWrite
    \/ \E n \in 1..Len(queue) : WriteWhenReadyStart(n)
    \/ \E n \in 1..Len(queue) : WriteWhenReadyResume(n)
    \/ \E n \in 1..Len(queue) : RejectionPassed(n)
    \/ OnBufferedAmountLow
    \/ TransportDrain
    \/ TransportClose

SpecUnbounded == Init /\ [][NextUnbounded]_vars

\* The event loop runs a then-callback / the continuation of an await
RunCallback == \E n \in 1..Len(queue) : WriteWhenReadyStart(n)

RunContinuation == \E n \in 1..Len(queue) : WriteWhenReadyResume(n)

\* The channel stays open: dc.send never throws
NextLive ==
    \/ UnboundedWrite
    \/ RunCallback
    \/ RunContinuation
    \/ OnBufferedAmountLow
    \/ TransportDrain

\* Promise jobs that are ready are run; the channel fires bufferedamountlow
\* after every pause
SpecLive ==
    /\ Init
    /\ [][NextLive]_vars
    /\ WF_vars(RunCallback)
    /\ WF_vars(RunContinuation)
    /\ WF_vars(OnBufferedAmountLow)

----------------------------------------------------------------------------
\* Properties

\* A step in which one call of write() returned
WriteReturned == Len(results') = Len(results) + 1

\* A step in which dc.send was invoked
SendInvoked == Len(sendLog') = Len(sendLog) + 1

\* The readiness state (instance identity and resolution) is left alone
ReadinessUnchanged == UNCHANGED <<ready, done, futures>>

Settled(n) == queue[n].pc \in {"fulfilled", "rejected"}

Pending(n) == queue[n].pc \in {"queued", "awaiting"}

\* C1 (unbounded, FIFO delivery): in every state the messages passed to
\* dc.send, in order, are a prefix of the messages passed to write, in
\* order: nothing is reordered, skipped or sent twice.
C1_FifoPrefix ==
    /\ Len(sendLog) <= Len(queue)
    /\ \A i \in 1..Len(sendLog) : sendLog[i].msg = queue[i].msg

\* Three messages went out in order although the first one paused the
\* controller and the others were already submitted
C1_Witness ==
    /\ Len(sendLog) = 3
    /\ sendLog[1].high
    /\ sendLog[2].epoch > sendLog[1].epoch
    /\ sendLog[3].ok
    /\ \A n \in 1..3 : queue[n].epoch = 0

\* C2 (bounded, write while paused): a write called while the current
\* ready future is not done returns with the NotReady error, does not invoke
\* dc.send and leaves the controller as it was (paused, same instance).
C2_WriteWhilePaused ==
    [][(WriteReturned /\ ~FutureDone(ready)) =>
          /\ results'[Len(results')].outcome = "NotReady"
          /\ sendLog' = sendLog
          /\ bufferedAmount' = bufferedAmount
          /\ ReadinessUnchanged
          /\ ~FutureDone(ready)']_vars

\* A write was refused and the controller is still paused
C2_Witness ==
    /\ Len(results) >= 2
    /\ results[Len(results)].outcome = "NotReady"
    /\ Len(sendLog) < Len(results)
    /\ ~FutureDone(ready)

\* The entry of a write in the log of dc.send invocations
SendOf(m) == CHOOSE e \in {sendLog[k] : k \in 1..Len(sendLog)} : e.msg = m

WasSent(m) == \E k \in 1..Len(sendLog) : sendLog[k].msg = m

\* A write that succeeded and left bufferedAmount at or above the high
\* water mark
PausingWrite(i) ==
    /\ results[i].outcome = "ok"
    /\ WasSent(results[i].msg)
    /\ SendOf(results[i].msg).high

C3_PauseStep ==
    (WriteReturned /\ FutureDone(ready) /\ SendInvoked
       /\ sendLog'[Len(sendLog')].ok /\ bufferedAmount' >= highWaterMark) =>
          /\ ready' # ready
          /\ ready' \notin 0..(futures - 1)
          /\ ~FutureDone(ready)'

C3_WritesUntilNotification ==
    \A i, j \in 1..Len(results) :
        (i < j /\ PausingWrite(i) /\ results[j].epoch = results[i].epoch)
            => results[j].outcome = "NotReady"

\* C3 (bounded, pause transition): a write in state Ready that leaves
\* bufferedAmount at or above the high water mark returns with the ready
\* future replaced by a new instance that is not done, and every write
\* called after it and before the next low-watermark notification fails
\* with NotReady.
C3_PauseTransition ==
    [][C3_PauseStep]_vars /\ []C3_WritesUntilNotification

\* A write reached the high water mark and the next write, with no
\* notification between them, was refused
C3_Witness ==
    \E i \in 1..Len(results) :
        /\ i < Len(results)
        /\ PausingWrite(i)
        /\ results[i + 1].epoch = results[i].epoch
        /\ results[i + 1].outcome = "NotReady"
        /\ ready = futures - 1
        /\ ~FutureDone(ready)

\* No dc.send so far has left bufferedAmount at or above the high water mark
BelowHighSoFar == \A k \in 1..Len(sendLog) : ~sendLog[k].high

\* C4 (bounded, no pause below the high water mark): as long as
\* bufferedAmount has been below the high water mark after every send, the
\* ready future is done and no write has failed with NotReady.
C4_NoPauseBelowHigh ==
    BelowHighSoFar =>
        /\ FutureDone(ready)
        /\ ready = 0
        /\ \A i \in 1..Len(results) : results[i].outcome # "NotReady"

\* Three writes succeeded, none reaching the high water mark
C4_Witness ==
    /\ Len(results) = 3
    /\ \A i \in 1..3 : results[i].outcome = "ok"
    /\ BelowHighSoFar
    /\ bufferedAmount > 0

\* A step from Paused that resolves: the handler's resume
C5_ResumeStep ==
    (done' # done) =>
        /\ ~FutureDone(ready)
        /\ done' = done \cup {ready}
        /\ ready' = ready
        /\ futures' = futures
        /\ resumes' = resumes + 1
        /\ UNCHANGED <<bufferedAmount, dcOpen, sendLog, results, queue>>

\* A step from Ready that is no call of write: a notification (or the
\* transport draining or closing) changes nothing of the controller
C5_ReadyStep ==
    (FutureDone(ready) /\ ~WriteReturned) =>
        /\ ReadinessUnchanged
        /\ resumes' = resumes
        /\ UNCHANGED <<sendLog, results, queue>>

\* In Paused one notification is enough to make the controller Ready
C5_OneNotificationResumes ==
    (~FutureDone(ready)) =>
        ENABLED (OnBufferedAmountLow /\ ready' = ready /\ ready' \in done')

\* C5 (notification handler): in state Paused one low-watermark
\* notification resolves the current ready future; a notification in state
\* Ready changes nothing (same instance, still done, nothing logged), however
\* often it is repeated.
C5_ResumeAndIdempotence ==
    /\ [][C5_ResumeStep]_vars
    /\ [][C5_ReadyStep]_vars
    /\ []C5_OneNotificationResumes

\* The controller was paused, was resumed by a notification and is Ready,
\* where further notifications can fire
C5_Witness ==
    /\ resumes >= 1
    /\ futures >= 2
    /\ FutureDone(ready)
    /\ ENABLED OnBufferedAmountLow

\* C6 (unbounded, write never fails synchronously): every call of write
\* has returned without an error, and write can be called in every state:
\* Ready or Paused, with links pending, and after a link was rejected.
C6_WriteNeverThrows ==
    /\ Len(results) = Len(queue)
    /\ \A i \in 1..Len(results) : results[i].outcome = "ok"
    /\ Len(queue) < MaxWrites => ENABLED UnboundedWrite

\* write returned normally once while Paused behind a pending link and once
\* after the chain had been rejected by a failed send
C6_Witness ==
    /\ \E n \in 2..Len(queue) :
          /\ queue[n].pausedAtSubmit
          /\ results[n].outcome = "ok"
    /\ \E n \in 2..Len(queue) :
          /\ queue[n].failedAtSubmit
          /\ queue[n - 1].error = "TransportError"
          /\ results[n].outcome = "ok"

\* C7 (unbounded, NotReady unreachable): no link has been rejected with
\* NotReady, and the inherited write is entered (a link goes from its await
\* to settled) only while the current ready future is done.
C7_NotReadyUnreachable ==
    /\ [](\A n \in 1..Len(queue) : queue[n].error # "NotReady")
    /\ [][(\E n \in 1..Len(queue) :
              queue[n].pc = "awaiting" /\ queue'[n].pc # "awaiting")
            => FutureDone(ready)]_vars

\* A link awaited a ready future created by a pause, was resumed by a
\* notification and delegated successfully, with a link behind it waiting
C7_Witness ==
    \E n \in 1..Len(queue) :
        /\ queue[n].pc = "fulfilled"
        /\ queue[n].awaited # 0
        /\ n < Len(queue)
        /\ queue[n + 1].pc = "awaiting"

\* A message submitted while Paused stays pending until a notification
\* has resumed the controller
C8_QueuedUntilNotification ==
    \A n \in 1..Len(queue) :
        (queue[n].pausedAtSubmit /\ (Settled(n) \/ WasSent(queue[n].msg)))
            => resumes > queue[n].epoch

\* Without a resume a paused controller stays paused on the same instance,
\* sends nothing and loses no link of the chain
C8_PausedStep ==
    (~FutureDone(ready) /\ resumes' = resumes) =>
        /\ ready' = ready
        /\ ~FutureDone(ready)'
        /\ sendLog' = sendLog
        /\ Len(queue') >= Len(queue)
        /\ \A n \in 1..Len(queue) : Pending(n) => queue'[n].pc = queue[n].pc
                                                  \/ (queue[n].pc = "queued"
                                                      /\ queue'[n].pc = "awaiting")

\* C8 (unbounded, no dispatch while paused): dc.send is never invoked while
\* the controller is Paused; as long as no notification resumes it, no
\* message submitted while Paused reaches dc.send, the ready future stays
\* unresolved and the chain only grows.
C8_NoDispatchWhilePaused ==
    /\ []C8_QueuedUntilNotification
    /\ [][SendInvoked => FutureDone(ready)]_vars
    /\ [][C8_PausedStep]_vars

\* Three messages submitted while Paused are pending, nothing was sent for
\* them and no notification has fired since
C8_Witness ==
    /\ ~FutureDone(ready)
    /\ Len(sendLog) = 1
    /\ Len(queue) = 4
    /\ \A n \in 2..4 : /\ queue[n].pausedAtSubmit
                       /\ Pending(n)
                       /\ queue[n].epoch = resumes

\* Links n, n+1 and n+2 were queued during one pause
QueuedInOnePause(n) ==
    /\ n + 2 <= Len(queue)
    /\ \A k \in n..(n + 2) : /\ queue[k].pausedAtSubmit
                             /\ queue[k].epoch = queue[n].epoch

\* Message of link k reached dc.send after exactly e resumes
SentInEpoch(k, e) ==
    /\ WasSent(queue[k].msg)
    /\ SendOf(queue[k].msg).epoch = e

\* C9 as stated (unbounded, one notification releases one message): with
\* three messages queued while Paused, after the one notification that ends
\* the pause and before a further one, the second and the third do not
\* reach dc.send.
C9_OneNotificationOneMessage ==
    \A n \in 1..Len(queue) :
        QueuedInOnePause(n) =>
            /\ ~SentInEpoch(n + 1, queue[n].epoch + 1)
            /\ ~SentInEpoch(n + 2, queue[n].epoch + 1)

\* C9 as amended: with messages queued while Paused, two of them reach
\* dc.send with no notification resuming the controller between them only
\* if the first of the two sends succeeded and left bufferedAmount below
\* the high water mark; so after one notification the first queued message
\* is the only one released whenever its send fails or brings
\* bufferedAmount to the high water mark or above.
C9_ReleasedUntilHigh ==
    \A i, j \in 1..Len(sendLog) :
        (i < j /\ sendLog[i].epoch = sendLog[j].epoch) =>
            (sendLog[i].ok /\ ~sendLog[i].high)

\* Three messages were queued while Paused; after the one notification the
\* first was sent, reached the high water mark, and the second is held back
C9_Witness ==
    \E n \in 2..Len(queue) :
        /\ QueuedInOnePause(n)
        /\ SentInEpoch(n, queue[n].epoch + 1)
        /\ SendOf(queue[n].msg).high
        /\ resumes = queue[n].epoch + 1
        /\ queue[n + 1].pc = "awaiting"
        /\ queue[n + 2].pc = "queued"
        /\ ~FutureDone(ready)

\* C10 (bounded, transport failure): a write in state Ready whose dc.send
\* throws returns with the TransportError, has invoked dc.send exactly once
\* and leaves the controller Ready on the same instance, whatever
\* bufferedAmount is.
C10_TransportFailure ==
    [][(WriteReturned /\ FutureDone(ready) /\ ~dcOpen) =>
          /\ results'[Len(results')].outcome = "TransportError"
          /\ SendInvoked
          /\ ~sendLog'[Len(sendLog')].ok
          /\ ReadinessUnchanged
          /\ FutureDone(ready)'
          /\ bufferedAmount' = bufferedAmount]_vars

\* A send failed in state Ready with bufferedAmount at the high water mark
\* or above, and the controller is still Ready
C10_Witness ==
    /\ Len(results) >= 1
    /\ results[Len(results)].outcome = "TransportError"
    /\ WasSent(results[Len(results)].msg)
    /\ ~SendOf(results[Len(results)].msg).ok
    /\ bufferedAmount >= highWaterMark
    /\ FutureDone(ready)

\* The link of the k-th dc.send invocation
LinkOf(k) == queue[sendLog[k].msg.id]

\* The link whose delegated write had its dc.send throw is rejected with
\* that error
C11_FailureOnItsLink ==
    \A k \in 1..Len(sendLog) :
        ~sendLog[k].ok =>
            /\ LinkOf(k).pc = "rejected"
            /\ LinkOf(k).error = "TransportError"

\* A rejected link stays rejected with its error
C11_RejectionKept ==
    \A n \in 1..Len(queue) :
        queue[n].pc = "rejected" =>
            /\ queue'[n].pc = "rejected"
            /\ queue'[n].error = queue[n].error

\* write called on a rejected chain appends one more link
C11_ChainExtended ==
    (TailState = "rejected" /\ WriteReturned) =>
        /\ Len(queue') = Len(queue) + 1
        /\ queue'[Len(queue')].pc = "queued"
        /\ results'[Len(results')].outcome = "ok"

\* C11 (unbounded, failure attached to its link): when the delegated write
\* of a link fails with the TransportError, that link is rejected with the
\* error and stays so (it is not swallowed), and write can still be called
\* and still extends the chain.
C11_FailureAttached ==
    /\ []C11_FailureOnItsLink
    /\ [][C11_RejectionKept]_vars
    /\ [][C11_ChainExtended]_vars
    /\ []((TailState = "rejected" /\ Len(queue) < MaxWrites)
            => ENABLED UnboundedWrite)

\* The send of a link failed, the link is rejected, and a link was appended
\* to the chain afterwards
C11_Witness ==
    \E n \in 1..Len(queue) :
        /\ n < Len(queue)
        /\ WasSent(queue[n].msg)
        /\ ~SendOf(queue[n].msg).ok
        /\ queue[n].pc = "rejected"
        /\ queue[n].error = "TransportError"
        /\ queue[n + 1].failedAtSubmit
        /\ queue[n + 1].pc = "queued"

\* Link n was delegated to the inherited write: its callback ran and
\* dc.send was invoked with its message
Delegated(n) ==
    /\ queue[n].awaited # NoFuture
    /\ WasSent(queue[n].msg)

\* C12 as stated (unbounded, transport closed while writes are pending):
\* every link that has settled was delegated to the inherited write, also
\* the links behind a link whose send failed.
C12_EachUnitDelegated ==
    \A n \in 1..Len(queue) : Settled(n) => Delegated(n)

\* C12 as amended: after the transport starts failing, the first link
\* delegated has its dc.send throw and is rejected with the TransportError;
\* every link behind it, queued or submitted later, is rejected with that
\* same TransportError without being delegated, so dc.send is not invoked
\* again.
C12_FirstFailureEndsDelegation ==
    /\ \A k \in 1..Len(sendLog) : ~sendLog[k].ok => k = Len(sendLog)
    /\ \A n \in 1..Len(queue) :
          queue[n].pc = "rejected" =>
              /\ queue[n].error = "TransportError"
              /\ \A m \in (n + 1)..Len(queue) :
                    /\ queue[m].pc \in {"queued", "rejected"}
                    /\ queue[m].awaited = NoFuture
                    /\ ~WasSent(queue[m].msg)

\* A send failed; the link queued behind it and a link submitted after the
\* failure are both rejected with the TransportError without a send attempt
C12_Witness ==
    \E n \in 1..Len(queue) :
        /\ n + 2 <= Len(queue)
        /\ Delegated(n)
        /\ ~SendOf(queue[n].msg).ok
        /\ ~queue[n + 1].failedAtSubmit
        /\ queue[n + 2].failedAtSubmit
        /\ \A m \in {n + 1, n + 2} :
              /\ queue[m].pc = "rejected"
              /\ queue[m].error = "TransportError"
              /\ ~Delegated(m)

\* C13 (bounded, wait-before-write protocol): a caller that before each
\* write reads `ready`, waits until that future is done and then calls
\* write once never gets NotReady, whenever the notifications fire.
C13_WaitBeforeWrite ==
    /\ \A i \in 1..Len(results) : results[i].outcome # "NotReady"
    /\ caller.pc = "waiting" => caller.fetched = ready

\* The caller wrote, was paused, waited on the new future through a
\* notification and wrote again successfully
C13_Witness ==
    /\ Len(results) >= 3
    /\ resumes >= 1
    /\ PausingWrite(1)
    /\ results[2].epoch = 1
    /\ \A i \in 1..Len(results) : results[i].outcome = "ok"

\* C14 (at most one unresolved readiness signal): of all Future instances
\* the controller has created, every one that is not done is the current
\* one; at most one is not done and every superseded instance is done.
C14_OneUnresolvedFuture ==
    /\ \A f \in 0..(futures - 1) : ~FutureDone(f) => f = ready
    /\ Cardinality({f \in 0..(futures - 1) : ~FutureDone(f)}) <= 1

\* Two instances have been superseded, both are done; the current, third
\* one is not
C14_Witness ==
    /\ futures >= 3
    /\ ready = futures - 1
    /\ ~FutureDone(ready)
    /\ \A f \in 0..(futures - 2) : FutureDone(f)

\* The instance is replaced only by a write that succeeds in state Ready
\* and leaves bufferedAmount at or above the high water mark
C15_ReplacedStep ==
    (ready' # ready) =>
        /\ WriteReturned
        /\ FutureDone(ready)
        /\ results'[Len(results')].outcome = "ok"
        /\ bufferedAmount' >= highWaterMark
        /\ ready' = futures
        /\ futures' = futures + 1
        /\ ~FutureDone(ready)'
        /\ done' = done

\* Every other write, and every step that is no write, keeps the instance
C15_KeptStep ==
    \/ WriteReturned /\ results'[Len(results')].outcome = "ok"
         /\ bufferedAmount' >= highWaterMark
    \/ ready' = ready /\ futures' = futures

\* An instance is resolved by a step from Paused to Ready, and only the
\* current instance, which was not done
C15_ResolvedStep ==
    (done' # done) =>
        /\ ~WriteReturned
        /\ ~FutureDone(ready)
        /\ done' = done \cup {ready}
        /\ ready' = ready
        /\ resumes' = resumes + 1

\* As many resolve() calls as instances that are done: the constructor's
\* one and one per resume
C15_ResolvedOnce ==
    /\ Cardinality(done) = resumes + 1
    /\ FutureDone(0)

\* C15 (readiness signal replacement and resolution): the current ready
\* future is replaced only by a write that takes Ready -> Paused; a
\* successful write below the high water mark, a failed write and the
\* notification handler keep the instance; every instance is resolved at
\* most once, by Paused -> Ready (the initial one by the constructor).
C15_ReplacementAndResolution ==
    /\ [][C15_ReplacedStep]_vars
    /\ [][C15_KeptStep]_vars
    /\ [][C15_ResolvedStep]_vars
    /\ []C15_ResolvedOnce

\* After a pause and a resume, a successful write below the high water
\* mark, a refused write and a failed write have all happened
C15_Witness ==
    /\ futures >= 2
    /\ resumes >= 1
    /\ \E i \in 1..Len(results) : results[i].outcome = "NotReady"
    /\ \E i \in 1..Len(results) : results[i].outcome = "TransportError"
    /\ \E i \in 1..Len(results) :
          /\ results[i].outcome = "ok"
          /\ ~SendOf(results[i].msg).high

\* Links that are running: at their await or about to call super.write
Active == {n \in 1..Len(queue) : queue[n].pc = "awaiting"}

\* C16 (unbounded, single-flight): at most one link is active at any time,
\* and a link has started only if every link before it is finished
\* (fulfilled: it waited, and its delegated write returned).
C16_SingleFlight ==
    /\ Cardinality(Active) <= 1
    /\ \A n \in 1..Len(queue) :
          queue[n].awaited # NoFuture =>
              \A m \in 1..(n - 1) : queue[m].pc = "fulfilled"

\* One link is finished, the next waits on the ready future of a pause and
\* two more are queued behind it
C16_Witness ==
    /\ Len(queue) = 4
    /\ queue[1].pc = "fulfilled"
    /\ queue[2].pc = "awaiting"
    /\ ~FutureDone(queue[2].awaited)
    /\ queue[3].pc = "queued"
    /\ queue[4].pc = "queued"

\* Every message passed to write so far has been passed to dc.send
AllDelivered ==
    /\ Len(sendLog) = Len(queue)
    /\ \A i \in 1..Len(sendLog) : sendLog[i].msg = queue[i].msg /\ sendLog[i].ok

\* C17 (unbounded, eventual delivery): when dc.send never throws, a
\* notification follows every pause and ready continuations are run, every
\* message passed to write is eventually passed to dc.send: whatever has
\* been submitted, a state follows in which all of it has been sent.
C17_EventualDelivery == []<>AllDelivered

\* All messages were delivered although the controller was paused on the
\* way with messages queued behind the pause
C17_Witness ==
    /\ Len(queue) = MaxWrites
    /\ Len(sendLog) = Len(queue)
    /\ resumes >= 1
    /\ \E n \in 1..Len(queue) : queue[n].pausedAtSubmit

\* C18 (initial state): the constructor leaves the controller Ready with
\* the initial ready future done and the channel's threshold set to the low
\* water mark; the chain of the unbounded controller starts settled, so the
\* first link can run both of its steps without a notification, awaits the
\* initial future, and its message reaches dc.send before any resume.
C18_InitialState ==
    /\ bufferedAmountLowThreshold = lowWaterMark
    /\ FutureDone(0)
    /\ PrevState(1) = "fulfilled"
    /\ Len(sendLog) = 0 => (ready = 0 /\ FutureDone(ready) /\ resumes = 0)
    /\ Len(queue) >= 1 =>
          /\ queue[1].pc = "queued" => ENABLED WriteWhenReadyStart(1)
          /\ queue[1].pc = "awaiting" =>
                (queue[1].awaited = 0 /\ ENABLED WriteWhenReadyResume(1))
          /\ Settled(1) =>
                /\ Len(sendLog) >= 1
                /\ sendLog[1].msg = queue[1].msg
                /\ sendLog[1].epoch = 0

\* The first write was sent although no notification has resumed anything
C18_Witness ==
    /\ Len(queue) = 1
    /\ queue[1].pc = "fulfilled"
    /\ queue[1].awaited = 0
    /\ Len(sendLog) = 1
    /\ sendLog[1].ok
    /\ resumes = 0

\* C19 (backpressure bound): with lowWaterMark < highWaterMark and
\* notifications fired only at or below the low water mark, a Ready
\* controller has bufferedAmount < highWaterMark, so dc.send is only invoked
\* below the high water mark and bufferedAmount never exceeds
\* highWaterMark - 1 + the largest message size.
C19_BackpressureBound ==
    /\ [](lowWaterMark < highWaterMark =>
            /\ FutureDone(ready) => bufferedAmount < highWaterMark
            /\ bufferedAmount <= highWaterMark - 1 + MaxSize)
    /\ [][lowWaterMark < highWaterMark /\ SendInvoked =>
            bufferedAmount < highWaterMark]_vars

\* The largest buffered amount was reached, and the controller was resumed
\* by a notification before
C19_Witness ==
    /\ bufferedAmount = highWaterMark - 1 + MaxSize
    /\ ~FutureDone(ready)
    /\ resumes >= 1

\* C20 (unbounded, deferred dispatch): a call of write returns without
\* dc.send having been invoked, and leaves its link queued, also when the
\* controller is Ready and the chain is settled; dc.send is invoked in a
\* later step, by the link's continuation.
C20_DeferredDispatch ==
    /\ [][WriteReturned =>
            /\ sendLog' = sendLog
            /\ bufferedAmount' = bufferedAmount
            /\ queue'[Len(queue')].pc = "queued"
            /\ ReadinessUnchanged]_vars
    /\ [][SendInvoked =>
            \E n \in 1..Len(queue) :
                /\ queue[n].pc = "awaiting"
                /\ Settled(n)'
                /\ sendLog'[Len(sendLog')].msg = queue[n].msg]_vars

\* write has returned with the controller Ready and the chain settled, and
\* nothing has been sent for its message yet
C20_Witness ==
    \E n \in 1..Len(queue) :
        /\ n = Len(queue)
        /\ queue[n].pc = "queued"
        /\ ~queue[n].pausedAtSubmit
        /\ PrevState(n) = "fulfilled"
        /\ FutureDone(ready)
        /\ ~WasSent(queue[n].msg)
        /\ n >= 2

====
